---- MODULE Spec2Model ----
(***************************************************************************)
(* Verification model of suriya-jambunathan/Image-based-AI-Text-Detection. *)
(*                                                                         *)
(*   Spec        ZigZagLROnPlateauRestarts (src/model.py): the learning-   *)
(*               rate controller, one Step action per call of step().      *)
(*   SpecWorker  Data._cpu_thread_worker (src/data_pos.py): the            *)
(*               rasterization of one paragraph.                           *)
(*   SpecOrch    Data.save_pos_tagged_images (src/data_pos.py): the        *)
(*               orchestrator that dispatches the workers.                 *)
(***************************************************************************)
EXTENDS Integers, Sequences, FiniteSets, TLC

VARIABLES
    \* ---- ZigZagLROnPlateauRestarts (self.*) and the optimizer it mutates
    mode,             \* self.mode: "min" or "max"
    up_factor,        \* self.up_factor   = 1 + up_factor,   a rational <<num, den>>
    down_factor,      \* self.down_factor = 1 - down_factor, a rational <<num, den>>
    up_patience,      \* self.up_patience
    down_patience,    \* self.down_patience
    num_bad_epochs,   \* self.num_bad_epochs
    num_good_epochs,  \* self.num_good_epochs
    prev_metric,      \* self.prev_metric, an extended real <<sign of infinity, value>>
    best_lr,          \* self.best_lr
    restart_after,    \* self.restart_after
    num_epochs,       \* self.num_epochs
    lr,               \* self.optimizer.param_groups[0]['lr']
    \* ---- history of the controller's run
    metrics,          \* the metrics passed to step(), in call order
    lr0,              \* the optimizer's step size at construction
    last_branch,      \* the branch the last call took: none/improvement/non_improvement
    lr_pre,           \* the optimizer's step size when the last call began
    lr_mid,           \* the optimizer's step size of the last call at line 369,
                      \* after the scaling branches and before the restart test
    \* ---- Data._cpu_thread_worker(paragraph, itr, name)
    w_pc,             \* position of the worker: idle/called/tagging/windows/returned/raised
    w_itr,            \* the itr argument
    w_name,           \* the name argument
    paragraph,        \* the paragraph argument: a sequence of sentences
    arrs,             \* arrs: the code sequence of every sentence
    arr_lens,         \* arr_lens, as the worker fills it
    w_i,              \* the window loop's index i
    mini_itr,         \* the local mini_itr: <<>> while unbound, <<n>> once bound
    data,             \* the matrix last handed to plt.contourf
    persisted,        \* the image paths written by plt.savefig
    attempted,        \* history: the start indices whose window body was entered
    failed,           \* history: <<i, exception>> for every window body that raised
    w_exc,            \* the exception that left the worker, "none" if none
    \* ---- Data.save_pos_tagged_images(name, images_dir)
    o_pc,             \* position of the orchestrator
    o_name,           \* the name argument, then the normalised label
    human_paragraphs, \* self.human_paragraphs
    chatgpt_paragraphs, \* self.chatgpt_paragraphs
    paragraphs,       \* the local paragraphs (the selected collection)
    label_dir,        \* the state of {images_dir}/{name} on disk
    pos_obj,          \* whether self.pos_obj has been created
    results,          \* the local results: the tasks dispatched so far
    o_exc,            \* the exception that left save_pos_tagged_images, "none" if none
    o_images_dir,     \* the images_dir argument
    images_dir,       \* self.images_dir: <<text without a final '/', whether it ends in '/'>>
    \* ---- Data.save_torch_data_batches and Data.get_train_test_val_data
    b_pc,             \* position: idle/materialize/batching/write_meta/split/read_meta/
                      \* load/returned/raised
    image_labels,     \* POSImageDataset: the class index of every image file
    shuffle,          \* the order in which the DataLoader (shuffle=True) yields the images
    batch_idx,        \* the batches saved so far
    batch_labels,     \* the local batch_labels of save_torch_data_batches
    files,            \* the files of {data_store_path}/batches/: name -> content
    split,            \* the split argument, in hundredths
    file_paths,       \* the local file_paths of get_train_test_val_data
    meta_labels,      \* the local batch_labels of get_train_test_val_data
    all_tensors,      \* the local all_tensors: the images of the concatenated tensor
    parts,            \* the returned (train_set, test_set, val_set), <<>> if none
    b_exc,            \* the exception that left get_train_test_val_data, "none" if none
    \* ---- POSTags.get_tags
    t_pc,             \* position of a get_tags call: idle/called/returned
    t_sentence,       \* the categories the tagger gives the words of the sentence
    t_pos_tags        \* the list get_tags returned

ctrl_vars == <<mode, up_factor, down_factor, up_patience, down_patience,
               num_bad_epochs, num_good_epochs, prev_metric, best_lr,
               restart_after, num_epochs, lr, metrics, lr0,
               last_branch, lr_pre, lr_mid>>
worker_vars == <<w_pc, w_itr, w_name, paragraph, arrs, arr_lens, w_i, mini_itr, data,
                 persisted, attempted, failed, w_exc>>
orch_vars == <<o_pc, o_name, human_paragraphs, chatgpt_paragraphs, paragraphs,
               label_dir, pos_obj, results, o_exc, o_images_dir, images_dir>>
batch_vars == <<b_pc, image_labels, shuffle, batch_idx, batch_labels, files, split,
                file_paths, meta_labels, all_tensors, parts, b_exc>>
tag_vars == <<t_pc, t_sentence, t_pos_tags>>
vars == <<ctrl_vars, worker_vars, orch_vars, batch_vars, tag_vars>>

(***************************************************************************)
(* Bounds of the model.                                                    *)
(***************************************************************************)
MaxCalls == 5        \* step() calls explored per controller run
MaxPatience == 2     \* largest up_patience explored
MaxRestart == 3      \* largest restart_after explored
MaxDownPatience == 1  \* largest down_patience explored
MaxSentences == 4    \* sentences of the longest paragraph given to the worker
MaxRecords == 2      \* rows of the largest corpus given to the orchestrator
MaxImages == 4       \* images of the largest raster directory given to the materializer
BatchCap == 2        \* images per batch in the model (the DataLoader's batch_size)
MaxWords == 3        \* words of the longest sentence given to get_tags alone

(***************************************************************************)
(* Extended reals for the metric: <<1, 0>> is +inf, <<-1, 0>> is -inf and  *)
(* <<0, v>> the finite value v.                                            *)
(***************************************************************************)
PosInf == <<1, 0>>
NegInf == <<-1, 0>>
Fin(v) == <<0, v>>

\* a < b on extended reals (np.Inf < np.Inf is False)
Lt(a, b) == \/ a[1] < b[1]
            \/ a[1] = 0 /\ b[1] = 0 /\ a[2] < b[2]

MetricValues == {4, 5, 6}
Modes == {"min", "max"}

\* The step size is kept in units small enough that every product below is exact.
Mul(x, f) == (x * f[1]) \div f[2]

\* the factor arguments of the constructor, as rationals
UpFactorArgs == {<<1, 2>>, <<1, 1>>}
DownFactorArgs == {<<1, 2>>}
InitialLRs == {2 ^ MaxCalls, 3 * (2 ^ MaxCalls)}

\* __init__: self.prev_metric = np.Inf if self.mode == 'min' else -np.Inf
InitPrevMetric_Swapped(md) == IF md = "min" THEN NegInf ELSE PosInf
InitPrevMetric(md) == IF md = "min" THEN PosInf ELSE NegInf

\* step: the test `metric < self.prev_metric` ('min') / `metric > self.prev_metric` ('max')
Improved_NonStrict(md, metric, prev) ==
    IF md = "min" THEN ~Lt(prev, metric) ELSE ~Lt(metric, prev)
Improved(md, metric, prev) ==
    IF md = "min" THEN Lt(metric, prev) ELSE Lt(prev, metric)

\* step, improvement branch: the step size stored as best-known is the one
\* read before the scale-up of the same call (at the call's entry), not the
\* one after it
CapturedLR_AfterScale(at_entry, after_scaling) == after_scaling
CapturedLR(at_entry, after_scaling) == at_entry

\* step: `if self.num_good_epochs > self.up_patience`
UpFires_AtPatience(good, patience) == good >= patience
UpFires_Late(good, patience) == good > patience + 1
UpFires(good, patience) == good > patience

\* step: `if self.num_bad_epochs > self.down_patience`
DownFires_AtPatience(bad, patience) == bad >= patience
DownFires(bad, patience) == bad > patience

\* step: `if self.num_epochs % self.restart_after == 0`
IsRestart_Skipped(n, every) == (n % every = 0) /\ (n \div every) % 2 = 1
IsRestart(n, every) == n % every = 0

\* step: the step size the restart writes back
RestartValue_Current(best, current) == current
RestartValue(best, current) == best

WorkerIdle ==
    /\ w_pc = "idle" /\ w_itr = 0 /\ w_name = "" /\ paragraph = <<>> /\ arrs = <<>> /\ arr_lens = <<>>
    /\ w_i = 0 /\ mini_itr = <<>> /\ data = <<>> /\ persisted = {}
    /\ attempted = {} /\ failed = {} /\ w_exc = "none"

OrchIdle ==
    /\ o_pc = "idle" /\ o_name = "" /\ human_paragraphs = <<>>
    /\ chatgpt_paragraphs = <<>> /\ paragraphs = <<>> /\ label_dir = "absent"
    /\ pos_obj = FALSE /\ results = <<>> /\ o_exc = "none"
    /\ o_images_dir = <<"", FALSE>>

BatchIdle ==
    /\ b_pc = "idle" /\ image_labels = <<>> /\ shuffle = <<>> /\ batch_idx = 0
    /\ batch_labels = <<>> /\ files = <<>> /\ split = <<0, 0, 0>>
    /\ file_paths = <<>> /\ meta_labels = <<>> /\ all_tensors = <<>>
    /\ parts = <<>> /\ b_exc = "none"

TagsIdle == t_pc = "idle" /\ t_sentence = <<>> /\ t_pos_tags = <<>>

\* self.images_dir before save_pos_tagged_images has set it
ImagesDirUnset == images_dir = <<"", FALSE>>

CtrlIdle ==
    /\ mode = "min" /\ up_factor = <<1, 1>> /\ down_factor = <<1, 1>>
    /\ up_patience = 0 /\ down_patience = 0 /\ num_bad_epochs = 0
    /\ num_good_epochs = 0 /\ prev_metric = PosInf /\ best_lr = 0
    /\ restart_after = 1 /\ num_epochs = 0 /\ lr = 0 /\ metrics = <<>> /\ lr0 = 0
    /\ last_branch = "none" /\ lr_pre = 0 /\ lr_mid = 0

(***************************************************************************)
(* ZigZagLROnPlateauRestarts.__init__                                      *)
(***************************************************************************)
CtrlInit ==
    /\ mode \in Modes
    /\ \E uf \in UpFactorArgs : up_factor = <<uf[2] + uf[1], uf[2]>>
    /\ \E df \in DownFactorArgs : down_factor = <<df[2] - df[1], df[2]>>
    /\ up_patience \in 0..MaxPatience
    /\ down_patience \in 0..MaxDownPatience
    /\ num_bad_epochs = 0
    /\ num_good_epochs = 0
    /\ prev_metric = InitPrevMetric(mode)
    /\ lr0 \in InitialLRs
    /\ lr = lr0
    /\ best_lr \in InitialLRs     \* the lr argument, independent of the optimizer's
    /\ restart_after \in 1..MaxRestart
    /\ num_epochs = 0
    /\ metrics = <<>>
    /\ last_branch = "none"
    /\ lr_pre = lr0
    /\ lr_mid = lr0

(***************************************************************************)
(* ZigZagLROnPlateauRestarts.step(metric)                                  *)
(***************************************************************************)
Step(metric) ==
    /\ num_epochs < MaxCalls
    /\ LET epochs   == num_epochs + 1
           improved == Improved(mode, Fin(metric), prev_metric)
           good     == IF improved THEN num_good_epochs + 1 ELSE 0
           bad      == IF improved THEN 0 ELSE num_bad_epochs + 1
           up       == improved /\ UpFires(good, up_patience)
           down     == ~improved /\ DownFires(bad, down_patience)
           scaled   == IF up THEN Mul(lr, up_factor)
                       ELSE IF down THEN Mul(lr, down_factor)
                       ELSE lr
           best     == IF improved THEN CapturedLR(lr, scaled) ELSE best_lr
       IN  /\ num_epochs' = epochs
           /\ best_lr' = best
           /\ num_good_epochs' = IF up THEN 0 ELSE good
           /\ num_bad_epochs' = IF down THEN 0 ELSE bad
           /\ prev_metric' = Fin(metric)
           /\ lr' = IF IsRestart(epochs, restart_after)
                    THEN RestartValue(best, scaled)
                    ELSE scaled
           /\ last_branch' = IF improved THEN "improvement" ELSE "non_improvement"
           /\ lr_pre' = lr
           /\ lr_mid' = scaled
    /\ metrics' = Append(metrics, metric)
    /\ UNCHANGED <<mode, up_factor, down_factor, up_patience, down_patience,
                   restart_after, lr0>>
    /\ UNCHANGED <<worker_vars, orch_vars, batch_vars, tag_vars>>

Init == CtrlInit /\ WorkerIdle /\ OrchIdle /\ ImagesDirUnset /\ BatchIdle /\ TagsIdle
Next == \E metric \in MetricValues : Step(metric)
Spec == Init /\ [][Next]_vars

(***************************************************************************)
(* Claims about the learning-rate controller, checked under Spec.          *)
(***************************************************************************)
Last(seq) == seq[Len(seq)]

\* the metric of the last call beats the metric of the call before it
BeatsPrevious ==
    /\ Len(metrics) >= 2
    /\ IF mode = "min"
       THEN metrics[Len(metrics)] < metrics[Len(metrics) - 1]
       ELSE metrics[Len(metrics)] > metrics[Len(metrics) - 1]

\* C1: after every call whose number is a positive multiple of restart_after,
\* the optimizer's step size equals the best-known step size, whatever branch
\* the call took and whether or not a scaling fired in it.
C1_RestartResetsToBest ==
    (num_epochs > 0 /\ num_epochs % restart_after = 0) => lr = best_lr

\* C1 witness: a restart call in which a scaling fired too, so that the
\* restart overwrote the scaled step size.
C1_Witness ==
    /\ num_epochs > 0 /\ num_epochs % restart_after = 0 /\ restart_after > 1
    /\ lr_mid # lr_pre
    /\ lr = best_lr /\ lr # lr_mid

\* C2: on a call that took the improvement branch, the best-known step size
\* is the step size the call began with, the non-improvement streak is 0, and
\* the improvement streak is incremented; exactly when the incremented streak
\* exceeds up_patience the step size is multiplied by (1 + up_factor) and the
\* improvement streak reset to 0.
C2_OnImprovement ==
    [][ (num_epochs' = num_epochs + 1 /\ last_branch' = "improvement") =>
          /\ best_lr' = lr
          /\ num_bad_epochs' = 0
          /\ IF num_good_epochs + 1 > up_patience
             THEN /\ lr_mid' * up_factor[2] = lr * up_factor[1]
                  /\ num_good_epochs' = 0
             ELSE /\ lr_mid' = lr
                  /\ num_good_epochs' = num_good_epochs + 1 ]_vars

\* C2 witness: an improvement call, not the first, at which the scale-up fired
\* in 'max' mode.
C2_Witness ==
    /\ mode = "max" /\ num_epochs >= 2 /\ up_patience >= 1
    /\ last_branch = "improvement" /\ num_good_epochs = 0
    /\ lr_mid * up_factor[2] = lr_pre * up_factor[1] /\ best_lr = lr_pre

\* C3: on a call that took the non-improvement branch, the improvement streak
\* is 0, the best-known step size is unchanged and the non-improvement streak
\* is incremented; exactly when the incremented streak exceeds down_patience
\* the step size is multiplied by (1 - down_factor) and the streak reset to 0.
C3_OnNonImprovement ==
    [][ (num_epochs' = num_epochs + 1 /\ last_branch' = "non_improvement") =>
          /\ best_lr' = best_lr
          /\ num_good_epochs' = 0
          /\ IF num_bad_epochs + 1 > down_patience
             THEN /\ lr_mid' * down_factor[2] = lr * down_factor[1]
                  /\ num_bad_epochs' = 0
             ELSE /\ lr_mid' = lr
                  /\ num_bad_epochs' = num_bad_epochs + 1 ]_vars

\* C3 witness: a non-improvement call at which the scale-down fired after the
\* streak had built up over more than one call.
C3_Witness ==
    /\ down_patience >= 1 /\ last_branch = "non_improvement"
    /\ num_bad_epochs = 0 /\ lr_mid * down_factor[2] = lr_pre * down_factor[1]
    /\ lr_mid < lr_pre

\* C4: from the second call on, a call takes the improvement branch exactly
\* when its metric is strictly better than the metric of the call immediately
\* before it; an equal metric is a non-improvement.
C4_ComparesWithPreviousCall ==
    Len(metrics) >= 2 =>
        /\ last_branch = "improvement" <=> BeatsPrevious
        /\ prev_metric = Fin(Last(metrics))

\* C4 witness: a metric equal to the previous one, classified non-improvement,
\* after a call that was itself a non-improvement.
C4_Witness ==
    /\ Len(metrics) >= 3
    /\ metrics[Len(metrics)] = metrics[Len(metrics) - 1]
    /\ metrics[Len(metrics) - 1] = metrics[Len(metrics) - 2]
    /\ last_branch = "non_improvement"

\* C5: the first call of a fresh controller is an improvement in either mode:
\* after it the improvement streak is 1 (0 when up_patience < 1, the scale-up
\* having fired), the non-improvement streak is 0 and the best-known step size
\* is the optimizer's step size at the start of the call.
C5_FirstCallImproves ==
    num_epochs = 1 =>
        /\ last_branch = "improvement"
        /\ num_good_epochs = (IF up_patience < 1 THEN 0 ELSE 1)
        /\ num_bad_epochs = 0
        /\ best_lr = lr0

\* C5 witness: a first call in 'max' mode with up_patience = 0, the scale-up
\* having fired.
C5_Witness ==
    /\ num_epochs = 1 /\ mode = "max" /\ up_patience = 0
    /\ last_branch = "improvement" /\ num_good_epochs = 0 /\ lr_mid > lr0

\* the configuration of C6
C6_Config ==
    mode = "min" /\ up_patience = 1 /\ down_patience = 1 /\ restart_after = 3

\* C6: with mode 'min', up_patience = down_patience = 1, restart_after = 3 and
\* metrics 5, 4, 4: after call 1 the improvement streak is 1 and the step size
\* the initial one; after call 2 the step size is the initial one times
\* (1 + up_factor) and the improvement streak 0; call 3 is a non-improvement
\* with streak 1 and no scale-down, and leaves the step size equal to the
\* best-known step size.
C6_Scenario ==
    C6_Config =>
        /\ metrics = <<5>> =>
              num_good_epochs = 1 /\ lr = lr0
        /\ metrics = <<5, 4>> =>
              num_good_epochs = 0 /\ lr * up_factor[2] = lr0 * up_factor[1]
        /\ metrics = <<5, 4, 4>> =>
              /\ last_branch = "non_improvement"
              /\ num_bad_epochs = 1
              /\ lr_mid = lr_pre
              /\ lr = best_lr

\* C6 witness: the end of the scenario, the restart having undone the scale-up
\* of call 2.
C6_Witness ==
    /\ C6_Config /\ metrics = <<5, 4, 4>>
    /\ lr = lr0 /\ lr_pre * up_factor[2] = lr0 * up_factor[1]

(***************************************************************************)
(* POSTags (src/data_pos.py)                                               *)
(***************************************************************************)
\* POSTags.__init__: self.pos_dict
pos_dict ==
    ("CC" :> 1) @@ ("CD" :> 2) @@ ("DT" :> 3) @@ ("EX" :> 4) @@ ("FW" :> 5) @@
    ("IN" :> 6) @@ ("JJ" :> 7) @@ ("JJR" :> 8) @@ ("JJS" :> 9) @@ ("LS" :> 10) @@
    ("MD" :> 11) @@ ("NN" :> 12) @@ ("NNS" :> 13) @@ ("NNP" :> 14) @@
    ("NNPS" :> 15) @@ ("PDT" :> 16) @@ ("POS" :> 17) @@ ("PRP" :> 18) @@
    ("PRP$" :> 19) @@ ("RB" :> 20) @@ ("RBR" :> 21) @@ ("RBS" :> 22) @@
    ("RP" :> 23) @@ ("SYM" :> 24) @@ ("TO" :> 25) @@ ("UH" :> 26) @@
    ("VB" :> 27) @@ ("VBD" :> 28) @@ ("VBG" :> 29) @@ ("VBN" :> 30) @@
    ("VBP" :> 31) @@ ("VBZ" :> 32) @@ ("WDT" :> 33) @@ ("WP" :> 34) @@
    ("WP$" :> 35) @@ ("WRB" :> 36)

\* dict.get(key, default)
DictGet(d, key, default) == IF key \in DOMAIN d THEN d[key] ELSE default

\* A sentence is modelled by the categories the tagger gives its words;
\* nltk.pos_tag(nltk.word_tokenize(sentence)) tags a '.' token as '.'.
words_and_tags(sentence) == sentence

\* a variant of the second comprehension that keeps every element
DropZeros_KeepAll(seq) == seq

\* the list comprehension `[x for x in seq if x != 0]`
RECURSIVE DropZeros(_)
DropZeros(seq) ==
    IF seq = <<>> THEN <<>>
    ELSE IF Head(seq) # 0 THEN <<Head(seq)>> \o DropZeros(Tail(seq))
    ELSE DropZeros(Tail(seq))

\* POSTags.get_tags(sentence): returns the one list pos_tags
get_tags(sentence) ==
    LET tagged   == words_and_tags(sentence)
        pos_tags == [k \in 1..Len(tagged) |-> DictGet(pos_dict, tagged[k], 0)]
    IN  DropZeros(pos_tags)

(***************************************************************************)
(* Data._cpu_thread_worker(paragraph, itr, name)                           *)
(***************************************************************************)
\* Python values are tagged with their type, <<"int", n>> or <<"list", seq>>;
\* line 90 binds arr to an element of the list get_tags returns, an int
PyInt(n) == <<"int", n>>

\* the sentences of the model, as the tagger's categories of their words
Sentences == { <<>>,                       \* '' (what split('.') leaves after a final '.')
               <<"NNS", "VBP">>,           \* two words, both in the vocabulary
               <<"NN", ",", "VBZ">>,       \* two in the vocabulary, one not
               <<"DT", "NN", "VBZ">> }     \* three in the vocabulary

RECURSIVE SeqsUpTo(_, _)
SeqsUpTo(S, n) ==
    IF n = 0 THEN {<<>>}
    ELSE LET shorter == SeqsUpTo(S, n - 1)
         IN  shorter \cup {Append(q, x) : q \in {r \in shorter : Len(r) = n - 1}, x \in S}

\* ''.split('.') is [''], so a paragraph has at least one sentence
WorkerParagraphs == SeqsUpTo(Sentences, MaxSentences) \ {<<>>}

\* `except Exception`: every exception of the worker's body derives from Exception
ExceptCatches_RenderOnly(exc) == exc \in {"TypeError", "OSError"}
ExceptCatches(exc) ==
    exc \in {"AttributeError", "ValueError", "TypeError", "UnboundLocalError", "OSError",
             "FileNotFoundError"}

\* the images_dir arguments of the model: 'out' and 'out/'
ImagesDirArgs == {<<"out", FALSE>>, <<"out", TRUE>>}

\* Line 148, f"{self.images_dir}/{name}": the directory os.mkdir makes, as its
\* components ('out//human' is 'out/human')
LabelDir(dir, name) == <<dir[1], name>>

\* Line 119, f"{self.images_dir}{name}/...": the directory of the saved file;
\* without a final '/' in images_dir the two texts make one component
SaveDir(dir, name) == IF dir[2] THEN <<dir[1], name>> ELSE << <<dir[1], name>> >>

\* Line 119: the path of the window image
SavePath(dir, name, itr, mini) ==
    [dir |-> SaveDir(dir, name), file |-> <<name, itr, mini>>]

\* the statement `arr, arr_len = value` of line 90: the exception it raises
UnpackPair(value) ==
    IF Len(value) = 2 THEN "none" ELSE "ValueError"

SeqMin(seq) == CHOOSE m \in {seq[k] : k \in DOMAIN seq} : \A k \in DOMAIN seq : m <= seq[k]
SeqMax(seq) == CHOOSE m \in {seq[k] : k \in DOMAIN seq} : \A k \in DOMAIN seq : m >= seq[k]

\* [0] * n, which is [] for n <= 0
Zeros(n) == [k \in 1..(IF n > 0 THEN n ELSE 0) |-> 0]

\* Lines 103-122, the body of the try for start index i: the exception it
\* raises ("none" if none), the matrix handed to contourf and the path saved.
\* render_ok and save_ok are the outcomes of plt.contourf and plt.savefig.
WindowBody(i, render_ok, save_ok) ==
    LET lens    == SubSeq(arr_lens, i + 1, i + 3)
        min_len == SeqMin(lens)
        max_len == SeqMax(lens)
        rows    == SubSeq(arrs, i + 1, i + 3)
        padded  == [j \in 1..3 |-> rows[j][2] \o Zeros(max_len - lens[j])]
        path    == SavePath(images_dir, w_name, w_itr, mini_itr[1])
    IN  IF \E j \in 1..3 : rows[j][1] # "list"          \* int has no .copy()
        THEN [exc |-> "AttributeError", data |-> data, saved |-> {}]
        ELSE IF \E j \in 1..3 : Len(padded[j]) # Len(padded[1])   \* np.vstack
        THEN [exc |-> "ValueError", data |-> data, saved |-> {}]
        ELSE IF ~render_ok
        THEN [exc |-> "TypeError", data |-> padded, saved |-> {}]
        ELSE IF mini_itr = <<>>                          \* the f-string of line 119
        THEN [exc |-> "UnboundLocalError", data |-> padded, saved |-> {}]
        ELSE IF SaveDir(images_dir, w_name) # LabelDir(images_dir, w_name)
        THEN [exc |-> "FileNotFoundError", data |-> padded, saved |-> {}]
        ELSE IF ~save_ok
        THEN [exc |-> "OSError", data |-> padded, saved |-> {}]
        ELSE [exc |-> "none", data |-> padded, saved |-> {path}]

\* The worker as a pool task or a direct call receives its arguments.
WorkerInit ==
    /\ w_pc = "called"
    /\ w_itr \in 0..1
    /\ w_name \in {"human", "ai"}
    /\ paragraph \in WorkerParagraphs
    /\ images_dir \in ImagesDirArgs      \* set by save_pos_tagged_images (line 137)
    /\ arrs = <<>> /\ arr_lens = <<>> /\ w_i = 0 /\ mini_itr = <<>>
    /\ data = <<>> /\ persisted = {} /\ attempted = {} /\ failed = {}
    /\ w_exc = "none"

\* Lines 83-87: the length test and the two empty lists
WorkerEnter ==
    /\ w_pc = "called"
    /\ w_pc' = IF Len(paragraph) < 3 THEN "returned" ELSE "tagging"
    /\ arrs' = <<>> /\ arr_lens' = <<>> /\ w_i' = 0
    /\ UNCHANGED <<w_itr, w_name, paragraph, mini_itr, data, persisted,
                   attempted, failed, w_exc>>
    /\ UNCHANGED <<ctrl_vars, orch_vars, batch_vars, tag_vars>>

\* Lines 88-92: one iteration of the tagging loop, outside any try.
\* tagger_ok is whether the external tagger returned rather than raised.
WorkerTag(tagger_ok) ==
    /\ w_pc = "tagging"
    /\ LET sentence == Append(paragraph[w_i + 1], ".")
           value    == get_tags(sentence)
           exc      == IF ~tagger_ok THEN "LookupError" ELSE UnpackPair(value)
       IN  IF exc # "none"
           THEN /\ w_pc' = "raised" /\ w_exc' = exc
                /\ UNCHANGED <<arrs, arr_lens, w_i>>
           ELSE /\ arrs' = Append(arrs, PyInt(value[1]))
                /\ arr_lens' = Append(arr_lens, value[2])
                /\ w_i' = IF w_i + 1 = Len(paragraph) THEN 0 ELSE w_i + 1
                /\ w_pc' = IF w_i + 1 = Len(paragraph) THEN "windows" ELSE "tagging"
                /\ w_exc' = w_exc
    /\ UNCHANGED <<w_itr, w_name, paragraph, mini_itr, data, persisted,
                   attempted, failed>>
    /\ UNCHANGED <<ctrl_vars, orch_vars, batch_vars, tag_vars>>

\* Lines 101-125: one iteration of the window loop, try and except included
WorkerWindow(render_ok, save_ok) ==
    /\ w_pc = "windows"
    /\ LET out   == WindowBody(w_i, render_ok, save_ok)
           more  == w_i + 1 < Len(paragraph) - 2
       IN  /\ attempted' = attempted \cup {w_i}
           /\ data' = out.data
           /\ persisted' = persisted \cup out.saved
           /\ mini_itr' = IF out.exc = "none" THEN <<mini_itr[1] + 1>> ELSE mini_itr
           /\ IF out.exc = "none" \/ ExceptCatches(out.exc)
              THEN /\ failed' = IF out.exc = "none" THEN failed
                                ELSE failed \cup {<<w_i, out.exc>>}
                   /\ w_i' = w_i + 1
                   /\ w_pc' = IF more THEN "windows" ELSE "returned"
                   /\ w_exc' = w_exc
              ELSE /\ failed' = failed \cup {<<w_i, out.exc>>}
                   /\ w_i' = w_i
                   /\ w_pc' = "raised"
                   /\ w_exc' = out.exc
    /\ UNCHANGED <<w_itr, w_name, paragraph, arrs, arr_lens>>
    /\ UNCHANGED <<ctrl_vars, orch_vars, batch_vars, tag_vars>>

InitWorker == CtrlIdle /\ WorkerInit /\ OrchIdle /\ BatchIdle /\ TagsIdle
NextWorker ==
    \/ WorkerEnter
    \/ \E tagger_ok \in BOOLEAN : WorkerTag(tagger_ok)
    \/ \E render_ok \in BOOLEAN, save_ok \in BOOLEAN : WorkerWindow(render_ok, save_ok)
SpecWorker == InitWorker /\ [][NextWorker]_vars

(***************************************************************************)
(* Claims about the rasterization worker, checked under SpecWorker.        *)
(***************************************************************************)
\* a plt.contourf or plt.savefig call of the run failed
RenderFailed == \E f \in failed : f[2] \in {"TypeError", "OSError"}

\* C7: a worker that returns has persisted no image for a paragraph of fewer
\* than 3 sentences and, no render call having failed, exactly N-2 images for
\* a paragraph of N >= 3 sentences.
C7_WindowCount ==
    w_pc = "returned" =>
        IF Len(paragraph) < 3
        THEN persisted = {}
        ELSE ~RenderFailed => Cardinality(persisted) = Len(paragraph) - 2

\* C8: an exception of a window's body never leaves the worker, and the
\* windows after a failed one are still attempted: while the loop runs the
\* windows 0..i-1 have been attempted, a worker that returns has attempted all
\* N-2 windows, and each of them either failed or has its image.
C8_FailedWindowIsSkipped ==
    /\ w_pc = "raised" => attempted = {}
    /\ w_pc = "windows" => attempted = 0..(w_i - 1)
    /\ (w_pc = "returned" /\ Len(paragraph) >= 3) =>
          /\ attempted = 0..(Len(paragraph) - 3)
          /\ Cardinality(failed) + Cardinality(persisted) = Len(paragraph) - 2

\* C8 witness: the first window failed and the last of at least two windows
\* was attempted after it.
C8_Witness ==
    /\ w_pc = "returned" /\ Len(paragraph) >= 4
    /\ \E f \in failed : f[1] = 0
    /\ (Len(paragraph) - 3) \in attempted

\* C9: no exception raised inside a paragraph's worker task leaves the task
\* (so that none reaches result.get() in save_pos_tagged_images).
C9_TaskKeepsItsExceptions == w_pc # "raised"

\* C11: the images of a task are written to pairwise distinct paths, one per
\* window: a worker that returns for a paragraph of N >= 3 sentences, no
\* render call having failed, has written exactly the paths
\* {images_dir}/{label}/{label}_{itr}_{k}.png for the window numbers
\* k = 0..N-3, itr being the record index the task was given.
C11_WindowPaths ==
    (w_pc = "returned" /\ Len(paragraph) >= 3 /\ ~RenderFailed) =>
        persisted = { [dir |-> <<images_dir[1], w_name>>, file |-> <<w_name, w_itr, k>>] :
                        k \in 0..(Len(paragraph) - 3) }

\* the code sequence of the sentence at index k of the paragraph (from 0)
CodesOf(k) == get_tags(Append(paragraph[k + 1], "."))

\* the longest code sequence of the window that starts at index i
WindowWidth(i) ==
    CHOOSE m \in {Len(CodesOf(i + j)) : j \in 0..2} :
        \A j \in 0..2 : m >= Len(CodesOf(i + j))

\* C12: once the body of the window that starts at index i has run, no render
\* call having failed, the matrix handed to the renderer has 3 rows of the
\* length of the longest of the three code sequences, row j being the code
\* sequence of sentence i+j followed by zeros only, and the stored sequences
\* are still the unpadded code sequences of the sentences.
C12_WindowMatrix ==
    (w_pc \in {"windows", "returned"} /\ attempted # {} /\ ~RenderFailed) =>
        LET i == CHOOSE a \in attempted : \A b \in attempted : a >= b
        IN  /\ Len(data) = 3
            /\ \A j \in 0..2 :
                  /\ Len(data[j + 1]) = WindowWidth(i)
                  /\ SubSeq(data[j + 1], 1, Len(CodesOf(i + j))) = CodesOf(i + j)
                  /\ \A c \in (Len(CodesOf(i + j)) + 1)..WindowWidth(i) : data[j + 1][c] = 0
            /\ \A k \in 0..(Len(paragraph) - 1) :
                  arrs[k + 1][1] = "list" /\ arrs[k + 1][2] = CodesOf(k)

(***************************************************************************)
(* Data.save_pos_tagged_images(name, images_dir)                           *)
(***************************************************************************)
\* the names bound at module level of data_pos.py: its imports (lines 1-15,
\* `from multiprocessing import Pool` binds Pool alone) and its classes
ModuleGlobals ==
    {"os", "ast", "nltk", "np", "pd", "plt", "torch", "transforms", "Dataset",
     "Image", "glob", "Pool", "tqdm", "matplotlib",
     "Data", "POSImageTensorDataset", "POSImageDataset", "POSTags"}

\* the locals of save_pos_tagged_images bound when the dispatch loop begins;
\* itr is a local (line 165 assigns it) that nothing binds before line 163
LocalsAtDispatch == {"self", "name", "images_dir", "paragraphs", "pool", "results"}

\* the paragraphs of the corpora given to the orchestrator
OrchParagraphs ==
    { <<<<"NNS", "VBP">>>>,
      <<<<"NNS", "VBP">>, <<"NNS", "VBP">>, <<"NNS", "VBP">>>>,
      <<<<"DT", "NN", "VBZ">>, <<"NNS", "VBP">>, <<"NN", ",", "VBZ">>, <<>>>> }

\* the name arguments of the model
NameArgs == {"human", "Human", "chatgpt"}

\* str.lower()
Lower(str) == IF str = "Human" THEN "human" ELSE str

\* _read_csv builds both collections from the rows of one DataFrame
OrchInit ==
    /\ o_pc = "called"
    /\ o_name \in NameArgs
    /\ \E n \in 0..MaxRecords :
          /\ human_paragraphs \in [1..n -> OrchParagraphs]
          /\ chatgpt_paragraphs \in [1..n -> OrchParagraphs]
    /\ paragraphs = <<>>
    /\ label_dir \in {"absent", "present", "noparent"}
    /\ pos_obj = FALSE
    /\ results = <<>>
    /\ o_exc = "none"
    /\ o_images_dir \in ImagesDirArgs
    /\ ImagesDirUnset

\* Lines 136-145: the collection and the label
OrchSelect ==
    /\ o_pc = "called"
    /\ IF Lower(o_name) = "human"
       THEN paragraphs' = human_paragraphs /\ o_name' = Lower(o_name)
       ELSE paragraphs' = chatgpt_paragraphs /\ o_name' = "ai"
    /\ images_dir' = o_images_dir
    /\ o_pc' = "mkdir"
    /\ UNCHANGED <<human_paragraphs, chatgpt_paragraphs, label_dir, pos_obj,
                   results, o_exc, o_images_dir>>
    /\ UNCHANGED <<ctrl_vars, worker_vars, batch_vars, tag_vars>>

\* Lines 147-150: os.mkdir with FileExistsError swallowed
OrchMkdir ==
    /\ o_pc = "mkdir"
    /\ IF label_dir = "noparent"
       THEN o_pc' = "raised" /\ o_exc' = "FileNotFoundError" /\ label_dir' = label_dir
       ELSE o_pc' = "postags" /\ o_exc' = o_exc /\ label_dir' = "present"
    /\ UNCHANGED <<o_name, human_paragraphs, chatgpt_paragraphs, paragraphs,
                   pos_obj, results, o_images_dir, images_dir>>
    /\ UNCHANGED <<ctrl_vars, worker_vars, batch_vars, tag_vars>>

\* Line 153: self.pos_obj = POSTags()
OrchPOSTags ==
    /\ o_pc = "postags"
    /\ pos_obj' = TRUE
    /\ o_pc' = "pool"
    /\ UNCHANGED <<o_name, human_paragraphs, chatgpt_paragraphs, paragraphs,
                   label_dir, results, o_exc, o_images_dir, images_dir>>
    /\ UNCHANGED <<ctrl_vars, worker_vars, batch_vars, tag_vars>>

\* Lines 156-169: the with statement. Evaluating `multiprocessing.Pool()`
\* looks the name multiprocessing up; inside the block the first iteration
\* of the dispatch loop evaluates the argument tuple (paragraph, itr, name)
\* before apply_async is called.
OrchPool ==
    /\ o_pc = "pool"
    /\ IF "multiprocessing" \notin ModuleGlobals
       THEN o_pc' = "raised" /\ o_exc' = "NameError" /\ results' = results
       ELSE IF paragraphs = <<>>
       THEN o_pc' = "returned" /\ o_exc' = o_exc /\ results' = <<>>
       ELSE IF "itr" \notin LocalsAtDispatch
       THEN o_pc' = "raised" /\ o_exc' = "UnboundLocalError" /\ results' = <<>>
       ELSE o_pc' = "dispatching" /\ o_exc' = o_exc /\ results' = <<>>
    /\ UNCHANGED <<o_name, human_paragraphs, chatgpt_paragraphs, paragraphs,
                   label_dir, pos_obj, o_images_dir, images_dir>>
    /\ UNCHANGED <<ctrl_vars, worker_vars, batch_vars, tag_vars>>

InitOrch == CtrlIdle /\ WorkerIdle /\ OrchInit /\ BatchIdle /\ TagsIdle
NextOrch == OrchSelect \/ OrchMkdir \/ OrchPOSTags \/ OrchPool
SpecOrch == InitOrch /\ [][NextOrch]_vars

(***************************************************************************)
(* Claims about the orchestrator, checked under SpecOrch.                  *)
(***************************************************************************)
\* C10: when save_pos_tagged_images has ended, the label directory having
\* been available, it has returned (not raised) and has dispatched exactly
\* one task per paragraph of the selected collection.
C10_OneTaskPerParagraph ==
    (o_pc \in {"returned", "raised"} /\ o_exc # "FileNotFoundError") =>
        /\ o_pc = "returned"
        /\ Len(results) = Len(paragraphs)

(***************************************************************************)
(* Data.save_torch_data_batches(folder_path) and                           *)
(* Data.get_train_test_val_data(batch_path=None, split)                    *)
(***************************************************************************)
\* File names are sequences of their parts: data_batch_{k}.pt, batches.META
BatchFile(k) == <<"data_batch_", k, ".pt">>
MetaFile == <<"batches.META">>

\* the injective sequences that list the set S: the orders of a shuffle, and
\* the orders in which glob.glob may return its matches
Orders(S) ==
    {f \in [1..Cardinality(S) -> S] : \A a, b \in DOMAIN f : f[a] = f[b] => a = b}

\* the raster directories of the model, with at least one image: the class
\* index (0 'ai', 1 'human', by sorted class name) of every image file
\* POSImageDataset lists
ImageLabelLists == SeqsUpTo({0, 1}, MaxImages) \ {<<>>}

\* the split arguments of the model, in hundredths:
\* [0.8, 0.1, 0.1], [0.5, 0.25, 0.25], [0.8, 0.1, 0.05] and [0.5, 0.5, 0.5]
SplitArgs == {<<80, 10, 10>>, <<50, 25, 25>>, <<80, 10, 5>>, <<50, 50, 50>>}

\* len(dataloader): batches of up to batch_size images
NumBatches(n) == (n + BatchCap - 1) \div BatchCap

\* the images of batch k (from 1) of the DataLoader
BatchOf(order, k) ==
    SubSeq(order, (k - 1) * BatchCap + 1,
           IF k * BatchCap < Len(order) THEN k * BatchCap ELSE Len(order))

\* open(..., "w") / torch.save: the directory with the file written
WriteFile(fs, name, content) == (name :> content) @@ fs

\* Line 225, glob.glob(batch_path + '.pt'): the pattern after the directory.
\* It holds no wildcard, so it names the one file '.pt'.
GlobPattern == <<".pt">>

\* glob: whether a file name matches a pattern ('*' matches any beginning)
GlobMatches(pattern, name) ==
    IF pattern[1] = "*"
    THEN name[Len(name)] = pattern[2]
    ELSE name = pattern

\* torch.cat of the loaded tensors, in the order of the paths
RECURSIVE CatFiles(_, _)
CatFiles(fs, paths) ==
    IF paths = <<>> THEN <<>> ELSE fs[Head(paths)] \o CatFiles(fs, Tail(paths))

\* Lines 250-251: torch.utils.data.random_split with the lengths
\* (split[0]+split[2])*len(dataset) and split[1]*len(dataset), which are
\* floats: it raises ValueError when they do not sum to the length of the
\* dataset, and otherwise TypeError when torch.randperm is given the float sum.
RandomSplitError(n, sp) ==
    IF (sp[1] + sp[3]) * n + sp[2] * n # 100 * n THEN "ValueError" ELSE "TypeError"

\* a variant that truncates the lengths to integers and accepts any list of
\* files: int(split[k] * len(dataset)) images for train, test and val
LoadAndSplit_Truncating(fs, paths, sp) ==
    LET tensors == CatFiles(fs, paths)
        n       == Len(tensors)
        n_train == (sp[1] * n) \div 100
        n_test  == (sp[2] * n) \div 100
        n_val   == (sp[3] * n) \div 100
    IN  [exc |-> "none", tensors |-> tensors,
         parts |-> <<SubSeq(tensors, 1, n_train),
                     SubSeq(tensors, n_train + 1, n_train + n_test),
                     SubSeq(tensors, n_train + n_test + 1, n_train + n_test + n_val)>>]

\* Lines 235-253: the tensors loaded and concatenated, then the two
\* random_split calls; torch.cat raises RuntimeError on an empty list.
LoadAndSplit(fs, paths, sp) ==
    IF paths = <<>>
    THEN [exc |-> "RuntimeError", tensors |-> <<>>, parts |-> <<>>]
    ELSE [exc |-> RandomSplitError(Len(CatFiles(fs, paths)), sp),
          tensors |-> CatFiles(fs, paths), parts |-> <<>>]

BatchInit ==
    /\ b_pc = "materialize"
    /\ image_labels \in ImageLabelLists
    /\ split \in SplitArgs
    /\ shuffle = <<>> /\ batch_idx = 0 /\ batch_labels = <<>> /\ files = <<>>
    /\ file_paths = <<>> /\ meta_labels = <<>> /\ all_tensors = <<>>
    /\ parts = <<>> /\ b_exc = "none"

\* Lines 179-192: the dataset, the shuffling DataLoader and the empty list
Materialize ==
    /\ b_pc = "materialize"
    /\ shuffle' \in Orders(1..Len(image_labels))
    /\ batch_idx' = 0
    /\ batch_labels' = <<>>
    /\ b_pc' = "batching"
    /\ UNCHANGED <<image_labels, files, split, file_paths, meta_labels,
                   all_tensors, parts, b_exc>>
    /\ UNCHANGED <<ctrl_vars, worker_vars, orch_vars, tag_vars>>

\* Lines 195-200: one iteration of the loop over the DataLoader
SaveBatch ==
    /\ b_pc = "batching"
    /\ LET batch  == BatchOf(shuffle, batch_idx + 1)
           labels == [k \in 1..Len(batch) |-> image_labels[batch[k]]]
       IN  /\ files' = WriteFile(files, BatchFile(batch_idx + 1), batch)
           /\ batch_labels' = batch_labels \o labels
    /\ batch_idx' = batch_idx + 1
    /\ b_pc' = IF batch_idx + 1 = NumBatches(Len(image_labels))
               THEN "write_meta" ELSE "batching"
    /\ UNCHANGED <<image_labels, shuffle, split, file_paths, meta_labels,
                   all_tensors, parts, b_exc>>
    /\ UNCHANGED <<ctrl_vars, worker_vars, orch_vars, tag_vars>>

\* Lines 203-205: the META file; then get_train_test_val_data is called
WriteMeta ==
    /\ b_pc = "write_meta"
    /\ files' = WriteFile(files, MetaFile, batch_labels)
    /\ b_pc' = "split"
    /\ UNCHANGED <<image_labels, shuffle, batch_idx, batch_labels, split,
                   file_paths, meta_labels, all_tensors, parts, b_exc>>
    /\ UNCHANGED <<ctrl_vars, worker_vars, orch_vars, tag_vars>>

\* Lines 221-225: the batch directory and the glob, in any order of the matches
SplitGlob ==
    /\ b_pc = "split"
    /\ file_paths' \in Orders({name \in DOMAIN files : GlobMatches(GlobPattern, name)})
    /\ b_pc' = "read_meta"
    /\ UNCHANGED <<image_labels, shuffle, batch_idx, batch_labels, files, split,
                   meta_labels, all_tensors, parts, b_exc>>
    /\ UNCHANGED <<ctrl_vars, worker_vars, orch_vars, tag_vars>>

\* Lines 228-232: the labels read back, one per line
SplitReadMeta ==
    /\ b_pc = "read_meta"
    /\ IF MetaFile \in DOMAIN files
       THEN meta_labels' = files[MetaFile] /\ b_pc' = "load" /\ b_exc' = b_exc
       ELSE meta_labels' = meta_labels /\ b_pc' = "raised"
            /\ b_exc' = "FileNotFoundError"
    /\ UNCHANGED <<image_labels, shuffle, batch_idx, batch_labels, files, split,
                   file_paths, all_tensors, parts>>
    /\ UNCHANGED <<ctrl_vars, worker_vars, orch_vars, tag_vars>>

\* Lines 235-253: load, concatenate, split, return
SplitLoad ==
    /\ b_pc = "load"
    /\ LET out == LoadAndSplit(files, file_paths, split)
       IN  /\ all_tensors' = out.tensors
           /\ parts' = out.parts
           /\ b_exc' = out.exc
           /\ b_pc' = IF out.exc = "none" THEN "returned" ELSE "raised"
    /\ UNCHANGED <<image_labels, shuffle, batch_idx, batch_labels, files, split,
                   file_paths, meta_labels>>
    /\ UNCHANGED <<ctrl_vars, worker_vars, orch_vars, tag_vars>>

InitBatches == CtrlIdle /\ WorkerIdle /\ OrchIdle /\ ImagesDirUnset /\ BatchInit /\ TagsIdle
NextBatches ==
    Materialize \/ SaveBatch \/ WriteMeta \/ SplitGlob \/ SplitReadMeta \/ SplitLoad
SpecBatches == InitBatches /\ [][NextBatches]_vars

(***************************************************************************)
(* Claims about the batch files and the split                              *)
(***************************************************************************)
BatchCallEnded == b_pc \in {"returned", "raised"}

\* a split in hundredths is valid for n images when the three fractions sum
\* to 1.0 and each gives an integer count
ValidSplit(sp, n) ==
    /\ sp[1] + sp[2] + sp[3] = 100
    /\ \A k \in 1..3 : (sp[k] * n) % 100 = 0

\* C13: once K >= 1 batches are persisted and the splitter has run, it has
\* loaded the K files data_batch_1..data_batch_K in the order in which the
\* materializer appended their labels, and the i-th label read back from
\* batches.META is the label of the i-th image of the concatenated tensor.
C13_RoundTrip ==
    (BatchCallEnded /\ batch_idx >= 1) =>
        /\ file_paths = [k \in 1..batch_idx |-> BatchFile(k)]
        /\ Len(all_tensors) = Len(meta_labels)
        /\ \A i \in 1..Len(meta_labels) : image_labels[all_tensors[i]] = meta_labels[i]

C15_Partition ==
    (BatchCallEnded /\ ValidSplit(split, Len(image_labels))) =>
        /\ b_pc = "returned"
        /\ Len(parts) = 3
        /\ \A k \in 1..3 : Len(parts[k]) * 100 = split[k] * Len(image_labels)
        /\ LET all == parts[1] \o parts[2] \o parts[3]
           IN  /\ Len(all) = Len(image_labels)
               /\ {all[i] : i \in 1..Len(all)} = 1..Len(image_labels)

(***************************************************************************)
(* POSTags.get_tags(sentence), called on its own                           *)
(***************************************************************************)
\* the categories the tagger gives in the model: vocabulary entries (the
\* first, the last and two between) and categories outside the vocabulary
TaggerTags == {"CC", "NN", "VBZ", "WRB", ",", "."}

TagsInit ==
    /\ t_pc = "called"
    /\ t_sentence \in SeqsUpTo(TaggerTags, MaxWords)
    /\ t_pos_tags = <<>>

\* Lines 423-445: the call returns
GetTags ==
    /\ t_pc = "called"
    /\ t_pos_tags' = get_tags(t_sentence)
    /\ t_pc' = "returned"
    /\ UNCHANGED t_sentence
    /\ UNCHANGED <<ctrl_vars, worker_vars, orch_vars, batch_vars>>

InitTags == CtrlIdle /\ WorkerIdle /\ OrchIdle /\ ImagesDirUnset /\ BatchIdle /\ TagsInit
NextTags == GetTags
SpecTags == InitTags /\ [][NextTags]_vars

\* C16: get_tags returns exactly the codes of the words whose category is in
\* the vocabulary, in word order; every element is in 1..36 and none is 0,
\* the result is empty when no category matched, a second call on the same
\* input gives the same list, and the vocabulary maps its 36 categories onto
\* the 36 codes 1..36.
C16_TagCodes ==
    /\ Cardinality(DOMAIN pos_dict) = 36
    /\ {pos_dict[t] : t \in DOMAIN pos_dict} = 1..36
    /\ t_pc = "returned" =>
        LET known == {k \in 1..Len(t_sentence) : t_sentence[k] \in DOMAIN pos_dict}
        IN  /\ Len(t_pos_tags) = Cardinality(known)
            /\ \A k \in known :
                 t_pos_tags[Cardinality({j \in known : j <= k})] = pos_dict[t_sentence[k]]
            /\ \A i \in 1..Len(t_pos_tags) : t_pos_tags[i] \in 1..36
            /\ (known = {} => t_pos_tags = <<>>)
            /\ get_tags(t_sentence) = t_pos_tags

C16_Witness ==
    /\ t_pc = "returned"
    /\ Len(t_sentence) = 3
    /\ t_sentence[2] \notin DOMAIN pos_dict
    /\ t_pos_tags = <<36, 1>>

(***************************************************************************)
(* Further claims about the learning-rate controller, checked under Spec.  *)
(***************************************************************************)
\* C17: in every state of the controller at most one of the two streaks is
\* non-zero, the improvement streak is within 0..up_patience, the
\* non-improvement streak within 0..down_patience, and the epoch counter is
\* the number of step calls made so far.
C17_Streaks ==
    /\ num_good_epochs = 0 \/ num_bad_epochs = 0
    /\ 0 <= num_good_epochs /\ num_good_epochs <= up_patience
    /\ 0 <= num_bad_epochs /\ num_bad_epochs <= down_patience
    /\ num_epochs = Len(metrics)

\* C17 witness: after more than up_patience + 1 calls the improvement streak
\* stands at its upper bound up_patience >= 1.
C17_Witness ==
    /\ num_epochs = Len(metrics) /\ num_epochs > up_patience + 1
    /\ up_patience >= 1 /\ num_good_epochs = up_patience
    /\ num_bad_epochs = 0

\* C18: on an improvement call at which the scale-up fires, the best-known
\* step size is the step size before the scale-up; an improvement call whose
\* number is a multiple of restart_after leaves the step size as it was at
\* the start of the call; and a call at which neither patience threshold is
\* exceeded and whose number is no multiple of restart_after leaves the
\* step size unchanged.
C18_CaptureBeforeScale ==
    [][ num_epochs' = num_epochs + 1 =>
          LET improvement == last_branch' = "improvement"
              exceeded    == IF improvement
                             THEN num_good_epochs + 1 > up_patience
                             ELSE num_bad_epochs + 1 > down_patience
              restart     == num_epochs' % restart_after = 0
          IN  /\ (improvement /\ exceeded) =>
                    /\ best_lr' = lr
                    /\ lr_mid' * up_factor[2] = best_lr' * up_factor[1]
              /\ (improvement /\ restart) => lr' = lr
              /\ (~exceeded /\ ~restart) => lr' = lr ]_vars

\* C18 witness: an improvement call that is a restart call too and at which
\* the scale-up fired: the step size is back at its value of the call's start.
C18_Witness ==
    /\ num_epochs >= 2 /\ restart_after >= 2 /\ num_epochs % restart_after = 0
    /\ last_branch = "improvement" /\ BeatsPrevious
    /\ lr_mid * up_factor[2] = lr_pre * up_factor[1] /\ lr_mid # lr_pre
    /\ best_lr = lr_pre /\ lr = lr_pre

====
